---- MODULE Spec2Model ----
(***************************************************************************)
(* State-machine model of run_pdf_citations.py: main, answer_with_citations *)
(* and _split_and_number.  The retriever, the sentence splitter and the     *)
(* response synthesizer are library calls: their results are drawn from     *)
(* small sets, and each may raise.                                          *)
(*                                                                          *)
(* Python values (metadata values, scores) are triples <<tag, str, int>>    *)
(* so that None, strings and numbers can live in one field.  Text is a      *)
(* sequence of one-character strings; a printed line is the sequence of     *)
(* the pieces the f-string concatenates.                                    *)
(***************************************************************************)
EXTENDS Integers, Sequences, FiniteSets, TLC

\* ---------------------------------------------------------------- bounds
MaxPassages == 2
MaxWindow == 2

\* ------------------------------------------------------ program constants
CITATION_CHUNK_SIZE == 512
CITATION_CHUNK_OVERLAP == 20
SnippetLen == 240
PrintLimit == 50

\* ---------------------------------------------------------- Python values
None == <<"none", "", 0>>
StrVal(s) == <<"str", s, 0>>
IntVal(n) == <<"int", "", n>>
FloatVal(r) == <<"float", r, 0>>

\* bool(v): None, "" and 0 are falsy
Truthy(v) ==
    \/ v[1] = "str" /\ v[2] # ""
    \/ v[1] = "int" /\ v[3] # 0
    \/ v[1] = "float" /\ v[2] # "0.0"

\* a or b
Or(a, b) == IF Truthy(a) THEN a ELSE b

\* what an f-string puts for {v}
PyStr(v) ==
    IF v[1] = "none" THEN "None"
    ELSE IF v[1] = "int" THEN ToString(v[3])
    ELSE v[2]

Min(a, b) == IF a < b THEN a ELSE b

\* ------------------------------------------------------------- the inputs
NoMeta ==
    [file_path |-> None, filename |-> None, source |-> None, file_name |-> None,
     page_label |-> None, page_number |-> None, page |-> None]

Metas ==
    { [NoMeta EXCEPT !.file_path = StrVal("a.pdf"), !.page_label = StrVal("1")],
      [NoMeta EXCEPT !.file_name = StrVal("b.pdf")],
      [NoMeta EXCEPT !.file_path = StrVal(""), !.filename = StrVal("c.pdf"),
                     !.page_number = IntVal(0), !.page = IntVal(2)] }

Scores == {None, FloatVal("0.5")}

Texts == { <<>>, <<"a", "\n">> }

LongText == [k \in 1..(PrintLimit + 1) |-> "a"]

ShortPassages == [text : Texts, metadata : Metas, score : Scores]

LongPassages == [text : {LongText}, metadata : {NoMeta}, score : Scores]

SeqsUpTo(S, n) == UNION { [1..m -> S] : m \in 0..n }

\* retriever.retrieve(query) with similarity_top_k = k: at most k passages
\* for k > 0; for k <= 0 the library decides
RetrievalResults(k) ==
    LET limit == IF k > 0 THEN Min(k, MaxPassages) ELSE MaxPassages
    IN  SeqsUpTo(ShortPassages, limit)
          \cup (IF limit >= 1 THEN { <<p>> : p \in LongPassages } ELSE {})

\* the windows of width w and stride s over text, up to the one reaching the end
RECURSIVE Windows(_, _, _, _)
Windows(text, w, s, from) ==
    IF from + w - 1 >= Len(text)
    THEN << SubSeq(text, from, Len(text)) >>
    ELSE << SubSeq(text, from, from + w - 1) >> \o Windows(text, w, s, from + s)

\* splitter.split_text(text): the chunk lists the splitter may return.  The loop
\* of line 103 takes whatever list comes back; for an empty text that is no
\* chunk or the one empty chunk, for any other text windows of some width
\* and overlap.
SplitResults(text) ==
    IF text = <<>>
    THEN { <<>>, << <<>> >> }
    ELSE UNION { { Windows(text, w, s, 1) : s \in 1..w } : w \in 1..MaxWindow }

Responses ==
    { [response |-> StrVal("answer [Source 1]"), text |-> None, str |-> "answer [Source 1]"],
      [response |-> None, text |-> None, str |-> "Empty Response"] }

\* --chunk-overlap: the default, and two values not below the chunk size
ChunkOverlaps == {CITATION_CHUNK_OVERLAP, CITATION_CHUNK_SIZE, CITATION_CHUNK_SIZE + 1}

pdf_paths == << "notes.pdf" >>

\* ------------------------------------------------------------------ state
VARIABLES
    pc,              \* where main / answer_with_citations stands
    api_key,         \* whether OPENAI_API_KEY is set
    top_k, chunk_size, chunk_overlap,   \* the parsed arguments
    retrieved,       \* the retriever's result
    idx,             \* position of the outer loop in retrieved
    splits,          \* what split_text returned for passages 1..idx
    chunks,          \* the chunks of passage idx not yet numbered
    counter, numbered_nodes, source_map,
    resp,            \* <<>> or << the synthesizer's response >>
    exc,             \* the call that raised ("none": nothing raised)
    out,             \* the lines printed so far
    exit_code,       \* -1 while running
    retrieve_calls, synth_calls

vars == << pc, api_key, top_k, chunk_size, chunk_overlap, retrieved, idx, splits,
           chunks, counter, numbered_nodes, source_map, resp, exc, out, exit_code,
           retrieve_calls, synth_calls >>

args == << api_key, top_k, chunk_size, chunk_overlap >>
loopvars == << idx, splits, chunks, counter, numbered_nodes, source_map >>
calls == << retrieve_calls, synth_calls >>

\* --------------------------------------------------- _split_and_number
\* line 100
FilePathOf(meta) ==
    Or(meta.file_path, Or(meta.filename, Or(meta.source, StrVal("unknown"))))

\* line 101
PageOf(meta) ==
    Or(meta.page_label, Or(meta.page_number, Or(meta.page, StrVal("?"))))

\* line 104: f"Source {counter}:\n{chunk}"
LabeledText(c, chunk) == << "Source ", ToString(c), ":", "\n" >> \o chunk

\* line 113: chunk[:240].replace("\n", " ")
SnippetOf(chunk) ==
    [k \in 1..Min(Len(chunk), SnippetLen) |-> IF chunk[k] = "\n" THEN " " ELSE chunk[k]]

\* a mutant of NewNode: the node's source_index is zero-based
NewNodeZeroBased(c, chunk, nws) ==
    [node |-> [text |-> LabeledText(c, chunk),
               metadata |-> [source_index |-> c - 1,
                             file_path |-> FilePathOf(nws.metadata),
                             page |-> PageOf(nws.metadata)]],
     score |-> nws.score]

\* lines 104-110
NewNode(c, chunk, nws) ==
    [node |-> [text |-> LabeledText(c, chunk),
               metadata |-> [source_index |-> c,
                             file_path |-> FilePathOf(nws.metadata),
                             page |-> PageOf(nws.metadata)]],
     score |-> nws.score]

\* a mutant of NewEntry: the entry is numbered by the list position before the append
NewEntryByPosition(c, chunk, nws) ==
    [N |-> Len(source_map), file_path |-> FilePathOf(nws.metadata),
     page |-> PageOf(nws.metadata), score |-> nws.score, snippet |-> SnippetOf(chunk)]

\* lines 111-114
NewEntry(c, chunk, nws) ==
    [N |-> c, file_path |-> FilePathOf(nws.metadata),
     page |-> PageOf(nws.metadata), score |-> nws.score, snippet |-> SnippetOf(chunk)]

\* ------------------------------------------------------------- the output
ApiKeyLines ==
    << << "Error: OPENAI_API_KEY is not set. Example:" >>,
       << "  export OPENAI_API_KEY='sk-...'" >> >>

LoadingLine == << "Loading ", ToString(Len(pdf_paths)), " PDF file(s)..." >>

NoResultsLine == << "No results retrieved. Try increasing --top-k or check your PDFs." >>

GeneratingLine == << "Generating answer..." >>

\* line 165
FinalText(r) == PyStr(Or(r.response, Or(r.text, StrVal(r.str))))

\* lines 162-166
AnswerLines(r) ==
    << << "\n", "================================================================================" >>,
       << "FINAL ANSWER" >>,
       << "================================================================================" >>,
       << FinalText(r) >> >>

\* a mutant of HeaderLine: the score is printed only when there is one
HeaderLineBlankScore(s) ==
    << "[Source ", ToString(s.N), "] file=", PyStr(s.file_path),
       " page=", PyStr(s.page), " score=",
       IF s.score = None THEN "" ELSE PyStr(s.score) >>

\* line 173
HeaderLine(s) ==
    << "[Source ", ToString(s.N), "] file=", PyStr(s.file_path),
       " page=", PyStr(s.page), " score=", PyStr(s.score) >>

\* line 174 (the source's box-drawing mark is written +- here)
SnippetLine(s) == << "  +- " >> \o s.snippet \o << "..." >>

RECURSIVE EntryLines(_)
EntryLines(sm) ==
    IF sm = <<>> THEN <<>>
    ELSE << HeaderLine(Head(sm)), SnippetLine(Head(sm)) >> \o EntryLines(Tail(sm))

\* line 176
MoreLine(n) == << "...and ", ToString(n), " more chunks." >>

\* lines 169-176
SourceMapLines(sm) ==
    << << "\n", "--------------------------------------------------------------------------------" >>,
       << "SOURCE MAP (match these to the [Source N] citations in the answer)" >>,
       << "--------------------------------------------------------------------------------" >> >>
    \o EntryLines(SubSeq(sm, 1, Min(Len(sm), PrintLimit)))
    \o (IF Len(sm) > PrintLimit THEN << MoreLine(Len(sm) - PrintLimit) >> ELSE <<>>)

InterruptedLine == << "\n", "Interrupted." >>

\* line 207: print("\nFatal error:", repr(e))
FatalLine(e) == << "\n", "Fatal error:", " ", e >>

\* ------------------------------------------------------------------- Init
Init ==
    /\ pc = "main"
    /\ api_key \in BOOLEAN
    /\ top_k \in 0..MaxPassages
    /\ chunk_size = CITATION_CHUNK_SIZE
    /\ chunk_overlap \in ChunkOverlaps
    /\ retrieved = <<>>
    /\ idx = 0
    /\ splits = <<>>
    /\ chunks = <<>>
    /\ counter = 1
    /\ numbered_nodes = <<>>
    /\ source_map = <<>>
    /\ resp = <<>>
    /\ exc = "none"
    /\ out = <<>>
    /\ exit_code = -1
    /\ retrieve_calls = 0
    /\ synth_calls = 0

\* ------------------------------------------------------------------- main
\* lines 179-182
MainNoApiKey ==
    /\ pc = "main"
    /\ ~api_key
    /\ out' = out \o ApiKeyLines
    /\ exit_code' = 1
    /\ pc' = "exited"
    /\ UNCHANGED << args, retrieved, loopvars, resp, exc, calls >>

\* lines 184-203, 126: the arguments are parsed and answer_with_citations starts
MainRun ==
    /\ pc = "main"
    /\ api_key
    /\ out' = Append(out, LoadingLine)
    /\ pc' = "load"
    /\ UNCHANGED << args, retrieved, loopvars, resp, exc, exit_code, calls >>

\* lines 127-131
LoadAndIndex ==
    /\ pc = "load"
    /\ pc' = "retrieve"
    /\ UNCHANGED << args, retrieved, loopvars, resp, exc, out, exit_code, calls >>

LoadAndIndexRaises ==
    /\ pc = "load"
    /\ exc' = "load"
    /\ pc' = "raised"
    /\ UNCHANGED << args, retrieved, loopvars, resp, out, exit_code, calls >>

\* lines 134-138
Retrieve ==
    /\ pc = "retrieve"
    /\ retrieve_calls' = retrieve_calls + 1
    /\ \E r \in RetrievalResults(top_k) :
         /\ retrieved' = r
         /\ IF r = <<>>
            THEN /\ out' = Append(out, NoResultsLine)
                 /\ pc' = "returned"
            ELSE /\ out' = out
                 /\ pc' = "split"
    /\ UNCHANGED << args, loopvars, resp, exc, exit_code, synth_calls >>

RetrieveRaises ==
    /\ pc = "retrieve"
    /\ retrieve_calls' = retrieve_calls + 1
    /\ exc' = "retrieve"
    /\ pc' = "raised"
    /\ UNCHANGED << args, retrieved, loopvars, resp, out, exit_code, synth_calls >>

\* lines 141, 89-92: SentenceSplitter(...) is built, the lists and the counter start
SplitterInit ==
    /\ pc = "split"
    /\ pc' = "loop"
    /\ idx' = 0
    /\ splits' = <<>>
    /\ chunks' = <<>>
    /\ counter' = 1
    /\ numbered_nodes' = <<>>
    /\ source_map' = <<>>
    /\ UNCHANGED << args, retrieved, resp, exc, out, exit_code, calls >>

\* line 89: the splitter's constructor refuses the sizes.  Nothing in the program
\* checks them, so with an overlap not below the size the constructor either
\* raises here or (SplitterInit) lets them pass.
SplitterInitRaises ==
    /\ pc = "split"
    /\ chunk_overlap >= chunk_size
    /\ exc' = "splitter"
    /\ pc' = "raised"
    /\ UNCHANGED << args, retrieved, loopvars, resp, out, exit_code, calls >>

\* a mutant of NextPassage: the counter restarts with each passage
NextPassageResetCounter ==
    /\ pc = "loop"
    /\ chunks = <<>>
    /\ idx < Len(retrieved)
    /\ idx' = idx + 1
    /\ \E cs \in SplitResults(retrieved[idx + 1].text) :
         /\ chunks' = cs
         /\ splits' = Append(splits, cs)
    /\ counter' = 1
    /\ UNCHANGED << pc, args, retrieved, numbered_nodes, source_map,
                    resp, exc, out, exit_code, calls >>

\* lines 94-103: the outer loop takes the next passage and splits its text
NextPassage ==
    /\ pc = "loop"
    /\ chunks = <<>>
    /\ idx < Len(retrieved)
    /\ idx' = idx + 1
    /\ \E cs \in SplitResults(retrieved[idx + 1].text) :
         /\ chunks' = cs
         /\ splits' = Append(splits, cs)
    /\ UNCHANGED << pc, args, retrieved, counter, numbered_nodes, source_map,
                    resp, exc, out, exit_code, calls >>

\* lines 103-115: one iteration of the inner loop
NumberChunk ==
    /\ pc = "loop"
    /\ chunks # <<>>
    /\ numbered_nodes' = Append(numbered_nodes, NewNode(counter, Head(chunks), retrieved[idx]))
    /\ source_map' = Append(source_map, NewEntry(counter, Head(chunks), retrieved[idx]))
    /\ counter' = counter + 1
    /\ chunks' = Tail(chunks)
    /\ UNCHANGED << pc, args, retrieved, idx, splits, resp, exc, out, exit_code, calls >>

\* lines 117, 141-158: both loops are over; the synthesizer is built
SplitDone ==
    /\ pc = "loop"
    /\ chunks = <<>>
    /\ idx = Len(retrieved)
    /\ out' = Append(out, GeneratingLine)
    /\ pc' = "synthesize"
    /\ UNCHANGED << args, retrieved, loopvars, resp, exc, exit_code, calls >>

\* line 159: synthesizer.asynthesize(query, nodes=numbered_nodes) is called
CallSynthesizer ==
    /\ pc = "synthesize"
    /\ synth_calls' = synth_calls + 1
    /\ pc' = "awaiting"
    /\ UNCHANGED << args, retrieved, loopvars, resp, exc, out, exit_code, retrieve_calls >>

\* lines 159-176: the call returns; the answer and the source map are printed
SynthesizeReturns ==
    /\ pc = "awaiting"
    /\ \E r \in Responses :
         /\ resp' = << r >>
         /\ out' = out \o AnswerLines(r) \o SourceMapLines(source_map)
    /\ pc' = "returned"
    /\ UNCHANGED << args, retrieved, loopvars, exc, exit_code, calls >>

\* a mutant of SynthesizeRaises: the failure is swallowed and the map still printed
SynthesizeRaisesBestEffort ==
    /\ pc = "awaiting"
    /\ exc' = "synth"
    /\ out' = out \o SourceMapLines(source_map)
    /\ pc' = "returned"
    /\ UNCHANGED << args, retrieved, loopvars, resp, exit_code, calls >>

\* line 159: the call raises; nothing catches it before main
SynthesizeRaises ==
    /\ pc = "awaiting"
    /\ exc' = "synth"
    /\ pc' = "raised"
    /\ UNCHANGED << args, retrieved, loopvars, resp, out, exit_code, calls >>

\* lines 194-203: asyncio.run returns
MainReturns ==
    /\ pc = "returned"
    /\ exit_code' = 0
    /\ pc' = "exited"
    /\ UNCHANGED << args, retrieved, loopvars, resp, exc, out, calls >>

\* lines 204-205
KeyboardInterrupt ==
    /\ pc \in {"load", "retrieve", "awaiting"}
    /\ exc' = "KeyboardInterrupt"
    /\ out' = Append(out, InterruptedLine)
    /\ exit_code' = 0
    /\ pc' = "exited"
    /\ UNCHANGED << args, retrieved, loopvars, resp, calls >>

\* lines 206-208
MainFatal ==
    /\ pc = "raised"
    /\ out' = Append(out, FatalLine(exc))
    /\ exit_code' = 1
    /\ pc' = "exited"
    /\ UNCHANGED << args, retrieved, loopvars, resp, exc, calls >>

Next ==
    \/ MainNoApiKey
    \/ MainRun
    \/ LoadAndIndex
    \/ LoadAndIndexRaises
    \/ Retrieve
    \/ RetrieveRaises
    \/ SplitterInit
    \/ SplitterInitRaises
    \/ NextPassage
    \/ NumberChunk
    \/ SplitDone
    \/ CallSynthesizer
    \/ SynthesizeReturns
    \/ SynthesizeRaises
    \/ MainReturns
    \/ KeyboardInterrupt
    \/ MainFatal

Spec == Init /\ [][Next]_vars

\* ------------------------------------------------------ for the properties
RECURSIVE Flatten(_)
Flatten(ss) == IF ss = <<>> THEN <<>> ELSE Head(ss) \o Flatten(Tail(ss))

\* the chunk a numbered node was made from: its text without the 'Source N:' prefix
ChunkOfNode(n) == SubSeq(n.node.text, 5, Len(n.node.text))

\* the position in retrieved of the passage unit k was cut from
ParentOf(k) ==
    CHOOSE p \in 1..Len(splits) :
        /\ Len(Flatten(SubSeq(splits, 1, p))) >= k
        /\ Len(Flatten(SubSeq(splits, 1, p - 1))) < k

Printed(line) == \E i \in 1..Len(out) : out[i] = line

IsHeader(line) == Len(line) = 8 /\ line[1] = "[Source "

HeaderCount == Cardinality({ i \in 1..Len(out) : IsHeader(out[i]) })

SplitOver == pc \in {"synthesize", "awaiting", "returned", "raised", "exited"} /\ splits # <<>>

ConfigError == chunk_overlap >= chunk_size \/ top_k <= 0

\* C1: the units carry labels 1..N, N the total number of chunks, in the order of
\* the passages and, inside a passage, of its chunks; the counter is never reset
C1_LabelsContiguous ==
    /\ counter = Len(numbered_nodes) + 1
    /\ Len(numbered_nodes) = Len(Flatten(splits)) - Len(chunks)
    /\ \A k \in 1..Len(numbered_nodes) :
         /\ numbered_nodes[k].node.metadata.source_index = k
         /\ ChunkOfNode(numbered_nodes[k]) = Flatten(splits)[k]
    /\ SplitOver => /\ Len(splits) = Len(retrieved)
                    /\ Len(numbered_nodes) = Len(Flatten(splits))

C1_Witness ==
    /\ pc = "synthesize"
    /\ Len(retrieved) = 2
    /\ Len(splits[1]) = 2
    /\ Len(splits[2]) = 2
    /\ numbered_nodes[4].node.metadata.source_index = 4

\* C2 (as claimed): every unit's source file and page are the parent passage's,
\* whichever metadata keys the parent carries them under
C2_ProvenanceOfParent ==
    \A k \in 1..Len(numbered_nodes) :
        LET m == retrieved[ParentOf(k)].metadata
            files == { m.file_path, m.filename, m.source, m.file_name } \ {None}
            pages == { m.page_label, m.page_number, m.page } \ {None}
            unit == numbered_nodes[k].node.metadata
        IN  /\ files # {} => unit.file_path \in files
            /\ pages # {} => unit.page \in pages

\* C3 (as claimed): with zero units the run ends with the fixed no-evidence answer
\* and an empty source map, and the synthesizer is never called
C3_ZeroUnitsNoCompletion ==
    (/\ pc \in {"synthesize", "awaiting", "returned", "raised", "exited"}
     /\ retrieve_calls = 1
     /\ exc \in {"none", "synth"}
     /\ numbered_nodes = <<>>)
    => /\ synth_calls = 0
       /\ pc \in {"returned", "exited"} => Printed(NoResultsLine)

\* C4: a failure of the synthesizer call aborts the run: no answer and no source
\* map is printed, no second call is made, and main reports the failure
C4_FailureAborts ==
    exc = "synth" =>
        /\ pc \in {"raised", "exited"}
        /\ resp = <<>>
        /\ ~Printed(<< "FINAL ANSWER" >>)
        /\ ~Printed(<< "SOURCE MAP (match these to the [Source N] citations in the answer)" >>)
        /\ HeaderCount = 0
        /\ synth_calls = 1
        /\ pc = "exited" => /\ exit_code = 1
                            /\ out[Len(out)] = << "\n", "Fatal error:", " ", "synth" >>

C4_Witness ==
    /\ pc = "exited"
    /\ exc = "synth"
    /\ Len(source_map) >= 1

\* C5 (as claimed): with a configuration error neither the retriever nor the
\* synthesizer is ever called
C5_ConfigErrorBeforeCalls ==
    ConfigError => retrieve_calls = 0 /\ synth_calls = 0

\* C7: once the passages are split, the source map has one entry per unit and the
\* k-th entry carries label k
C7_SourceMapOnePerUnit ==
    SplitOver =>
        /\ Len(source_map) = Len(numbered_nodes)
        /\ Len(source_map) = Len(Flatten(splits))
        /\ \A k \in 1..Len(source_map) : source_map[k].N = k

C7_Witness ==
    /\ pc = "returned"
    /\ resp # <<>>
    /\ Len(retrieved) = 2
    /\ Len(source_map) = 3

\* the lines printed before the first source map entry: the loading and the
\* generating line, four lines of answer, three lines heading the map
Preamble == 2 + 4 + 3

C9_EmptyTextNoUnit ==
    /\ \A k \in 1..Len(numbered_nodes) : retrieved[ParentOf(k)].text # <<>>
    /\ \A k \in 1..Len(source_map) : retrieved[ParentOf(k)].text # <<>>

\* C10: after every iteration numbered_nodes and source_map are as long as
\* counter - 1, and at each position the label in the node's text, the node's
\* source_index and the entry's N are the position, with the entry's file_path,
\* page, score and snippet those of the node
C10_LabelsAgree ==
    /\ Len(numbered_nodes) = counter - 1
    /\ Len(source_map) = counter - 1
    /\ \A i \in 1..Len(numbered_nodes) :
         LET n == numbered_nodes[i]
             e == source_map[i]
         IN  /\ SubSeq(n.node.text, 1, 4) = << "Source ", ToString(i), ":", "\n" >>
             /\ n.node.metadata.source_index = i
             /\ e.N = i
             /\ e.file_path = n.node.metadata.file_path
             /\ e.page = n.node.metadata.page
             /\ e.score = n.score
             /\ e.snippet = SnippetOf(ChunkOfNode(n))

C10_Witness ==
    /\ pc = "loop"
    /\ chunks # <<>>
    /\ counter = 3
    /\ idx = 2

====
